---- MODULE Spec2Model ----
(***************************************************************************)
(* Trivy metrics exporters of Security/trivy.                              *)
(*                                                                         *)
(*  - trivy-exporter.py (file-backed): a main loop that rebuilds the       *)
(*    Prometheus registry from the JSON reports of a directory, and an     *)
(*    HTTP handler thread that serves /metrics, /-/healthy and /-/ready.   *)
(*  - trivy-prometheus-exporter.py (inventory-backed): a loop that lists   *)
(*    the images of a cluster, scans each with trivy and exports the       *)
(*    findings.                                                            *)
(*                                                                         *)
(*  - dashboard/trivy_exporter.py (dashboard): an earlier version of the   *)
(*    file-backed exporter, without health endpoints.                      *)
(*                                                                         *)
(* Spec is the file-backed exporter, SpecInventory the inventory-backed    *)
(* one, SpecDashboard the dashboard one.  Each leaves the other programs'  *)
(* variables at their initial value.  FairSpec is a process that runs      *)
(* either the file-backed or the inventory-backed exporter, with a main    *)
(* thread that is always scheduled again.  SpecParse applies the two       *)
(* functions that read a scan document to one document.                    *)
(*                                                                         *)
(* A signal that stops the process (KeyboardInterrupt, SIGTERM, SIGKILL)   *)
(* is no step of these specifications: they describe the process while it  *)
(* is left running.                                                        *)
(***************************************************************************)
EXTENDS Integers, Sequences, FiniteSets, TLC

VARIABLES
    program,                     \* the script this process runs
    \* ---- trivy-exporter.py -------------------------------------------
    reports_dir,                 \* the file system under REPORTS_DIR
    trivy_image_vulnerabilities, \* Gauge: <<image, severity, package>> -> count
    trivy_vulnerability_info,    \* Gauge: set of label tuples (value always 1)
    trivy_last_scan_timestamp,   \* Gauge: image -> epoch seconds
    trivy_images_scanned,        \* Gauge without labels
    ready,                       \* _ready (threading.Event)
    pc,                          \* position of the main thread
    report_files,                \* update_metrics: local report_files
    idx,                         \* update_metrics: position of the for loop
    images_scanned,              \* update_metrics: local images_scanned
    vuln_counts,                 \* update_metrics: local vuln_counts
    resp,                        \* the last response the HTTP thread wrote
    pre,                         \* history: count/detail families when the
                                 \* current (or last) update_metrics was called
    hist,                        \* history: outcomes of the cycles so far
    \* ---- trivy-prometheus-exporter.py ---------------------------------
    cluster,                     \* the pods the Kubernetes API would list
    vulnerability_gauge,         \* Gauge: set of label tuples (value always 1)
    last_scan_timestamp,         \* Gauge: <<image, namespace>> -> time
    scan_duration,               \* Histogram: image -> number of observations
    scan_errors,                 \* Gauge: <<image, namespace>> -> 0 | 1
    ipc,                         \* position of TrivyExporter.run
    images,                      \* scan_all_images: local images
    cur,                         \* scan_all_images: position of the for loop
    cycleNo,                     \* number of cycles started (also the clock)
    scan_log,                    \* history: the last scan_image call
    latest_scan,                 \* history: <<image, namespace>> -> whether the
                                 \* latest scan_image call for it failed, and
                                 \* whether it returned scan data
    cycle_log,                   \* history: the subjects scanned and the labels
                                 \* written in the current (or last) cycle
    interval,                    \* run: the parameter interval (--interval)
    sleeping,                    \* the seconds time.sleep was called with, 0
                                 \* while run is not sleeping
    \* ---- dashboard/trivy_exporter.py ----------------------------------
    dash_reports_dir,            \* the file system under REPORTS_DIR
    dash_image_vulnerabilities,  \* Gauge: <<image, severity, package>> -> count
    dash_vulnerability_id,       \* Info: label tuple -> the info it was given
    dash_last_scan_timestamp,    \* Gauge: image -> epoch seconds
    dash_images_scanned,         \* Gauge without labels
    dash_pc,                     \* position of main
    dash_report_files,           \* update_metrics: local report_files
    dash_idx,                    \* update_metrics: position of the for loop
    dash_count,                  \* update_metrics: local images_scanned
    dash_hist,                   \* history: outcomes of the cycles so far
    \* ---- one call of a function that reads a scan document ------------
    document,                    \* the document the function is given
    call                         \* the function called and what it gave

fileVars == <<reports_dir, trivy_image_vulnerabilities, trivy_vulnerability_info,
              trivy_last_scan_timestamp, trivy_images_scanned, ready, pc,
              report_files, idx, images_scanned, vuln_counts, resp, pre, hist>>

invVars == <<cluster, vulnerability_gauge, last_scan_timestamp, scan_duration,
             scan_errors, ipc, images, cur, cycleNo, scan_log, cycle_log,
             latest_scan, interval, sleeping>>

dashVars == <<dash_reports_dir, dash_image_vulnerabilities, dash_vulnerability_id,
              dash_last_scan_timestamp, dash_images_scanned, dash_pc,
              dash_report_files, dash_idx, dash_count, dash_hist>>

callVars == <<document, call>>

vars == <<program, fileVars, invVars, dashVars, callVars>>

\* what a step of each program leaves alone
notFile == <<program, invVars, dashVars, callVars>>
notInventory == <<program, fileVars, dashVars, callVars>>
notDashboard == <<program, fileVars, invVars, callVars>>
notCall == <<program, fileVars, invVars, dashVars>>

-----------------------------------------------------------------------------
(* Bounds of the model *)

\* most report files in the directory
MaxFiles == 2

\* most cycles of the inventory-backed exporter
MaxCycles == 2

\* trivy-prometheus-exporter.py: the default of --interval, and the seconds
\* run sleeps after a cycle that raised
DefaultInterval == 3600
RetrySeconds == 60

\* the values of --interval the exporter is started with
Intervals == {30, RetrySeconds, DefaultInterval}

-----------------------------------------------------------------------------
(* JSON documents.  A key that is absent is Missing; a JSON array where a   *)
(* string is expected is JsonList (Python: a list, which is unhashable).    *)

Missing == "<missing>"
JsonList == "<list>"

\* the 64 characters label values of fixed_version are cut to
FixedVersionCap == 64

LongVersion == "1.2.3-0ubuntu0.22.04.1+really1.2.3-0ubuntu0.22.04.1~esm1+b1.fips.x86_64"

Vuln(id, pkg, inst, fixed, sev) ==
    [VulnerabilityID |-> id, PkgName |-> pkg, InstalledVersion |-> inst,
     FixedVersion |-> fixed, Severity |-> sev]

JList(items) == [kind |-> "list", items |-> items]
JNull == [kind |-> "null", items |-> <<>>]
JMissing == [kind |-> "missing", items |-> <<>>]
\* a JSON number other than 0 where an array is expected
JScalar == [kind |-> "scalar", items |-> <<>>]

Result(vulns) == [Vulnerabilities |-> vulns]

Object(name, created, results) ==
    [kind |-> "object", ArtifactName |-> name, CreatedAt |-> created,
     Results |-> results]

\* a file json.load cannot decode
Undecodable ==
    [kind |-> "undecodable", ArtifactName |-> Missing, CreatedAt |-> Missing,
     Results |-> JMissing]

\* a file open cannot read
Unreadable ==
    [kind |-> "unreadable", ArtifactName |-> Missing, CreatedAt |-> Missing,
     Results |-> JMissing]

\* a document json.load decodes to a list, not to a dict
NotObject ==
    [kind |-> "array", ArtifactName |-> Missing, CreatedAt |-> Missing,
     Results |-> JMissing]

V1 == Vuln("CVE-1", "libfoo", "1.0", LongVersion, "HIGH")
V2 == Vuln("CVE-2", "libfoo", "1.0", Missing, "HIGH")
V3 == Vuln("CVE-3", "libfoo", "1.1", "1.2", "HIGH")
V4 == Vuln(Missing, Missing, Missing, Missing, Missing)
V5 == Vuln("CVE-5", "libbar", "2.0", "2.1", JsonList)
V6 == Vuln("CVE-6", "libbar", "2.0", "", "LOW")

\* app:1.0 with two HIGH findings of libfoo
DocApp == Object("app:1.0", "2024-01-01T00:00:00Z", JList(<<Result(JList(<<V1, V2>>))>>))
\* a second report of app:1.0: a CreatedAt that is no ISO date, a null
\* Vulnerabilities, and a finding without any of its keys
DocApp2 == Object("app:1.0", "yesterday",
                  JList(<<Result(JNull), Result(JList(<<V3, V4>>))>>))
\* a report whose second finding has a JSON array as Severity
DocList == Object("web:3", "2024-06-01T12:00:00+00:00",
                  JList(<<Result(JList(<<V6, V5>>))>>))

ReportDocs == {DocApp, DocApp2, DocList, Undecodable}

\* a later scan of app:1.0, and one whose report has no CreatedAt; neither
\* has findings
DocLater == Object("app:1.0", "2024-06-01T12:00:00+00:00", JList(<<>>))
DocNoDate == Object("app:1.0", Missing, JList(<<>>))

RescanDocs == {DocLater, DocNoDate}

Range(f) == {f[x] : x \in DOMAIN f}

\* the sequences of at most n elements of S, none twice
RECURSIVE SeqsUpTo(_, _)
SeqsUpTo(S, n) ==
    IF n = 0 THEN {<<>>}
    ELSE LET shorter == SeqsUpTo(S, n - 1)
         IN  shorter \cup
             UNION {{Append(s, x) : x \in S \ Range(s)} :
                        s \in {t \in shorter : Len(t) = n - 1}}

\* the states of REPORTS_DIR: absent, a plain file, a directory that cannot
\* be listed, or a directory of report files (each of ReportDocs is one
\* file) in the order glob lists them, or a directory that holds the
\* reports of the rescans only
Directories ==
    {[kind |-> k, files |-> <<>>] : k \in {"missing", "notdir", "denied"}}
    \cup {[kind |-> "dir", files |-> fs] : fs \in SeqsUpTo(ReportDocs, MaxFiles)}
    \cup {[kind |-> "dir", files |-> fs] : fs \in SeqsUpTo(RescanDocs, MaxFiles)}

-----------------------------------------------------------------------------
(* trivy-exporter.py: report parsing *)

\* dict.get(key, default)
Get(value, default) == IF value = Missing THEN default ELSE value

\* what parse_trivy_report returns from its except branch
NoneReport == [ok |-> FALSE, image |-> "", scan_time |-> "", vulnerabilities |-> <<>>]

\* a parser that defaults every key, Severity too, to the empty string
ParsedVuln_severity_empty(image_name, vuln) ==
    [image             |-> image_name,
     vulnerability_id  |-> Get(vuln.VulnerabilityID, ""),
     package           |-> Get(vuln.PkgName, ""),
     installed_version |-> Get(vuln.InstalledVersion, ""),
     fixed_version     |-> Get(vuln.FixedVersion, ""),
     severity          |-> Get(vuln.Severity, "")]

\* the dict appended for one entry of Vulnerabilities (title is read but
\* never exported, and is left out)
ParsedVuln(image_name, vuln) ==
    [image             |-> image_name,
     vulnerability_id  |-> Get(vuln.VulnerabilityID, ""),
     package           |-> Get(vuln.PkgName, ""),
     installed_version |-> Get(vuln.InstalledVersion, ""),
     fixed_version     |-> Get(vuln.FixedVersion, ""),
     severity          |-> Get(vuln.Severity, "UNKNOWN")]

\* result.get('Vulnerabilities', []) or [], for a Vulnerabilities that can
\* be iterated
VulnerabilitiesOf(result) ==
    IF result.Vulnerabilities.kind = "list" THEN result.Vulnerabilities.items ELSE <<>>

RECURSIVE CollectVulns(_, _, _)
CollectVulns(image_name, results, i) ==
    IF i > Len(results) THEN <<>>
    ELSE LET vs == VulnerabilitiesOf(results[i])
         IN  [j \in 1..Len(vs) |-> ParsedVuln(image_name, vs[j])]
             \o CollectVulns(image_name, results, i + 1)

\* lines 108-125: the exception the try block raises on doc, "none" when
\* it reaches its return
TryRaises(doc) ==
    IF doc.kind = "unreadable" THEN "OSError"               \* open
    ELSE IF doc.kind = "undecodable" THEN "JSONDecodeError" \* json.load
    ELSE IF doc.kind # "object" THEN "AttributeError"       \* data.get of a list
    ELSE IF doc.Results.kind \in {"null", "scalar"} THEN "TypeError"  \* for ... in None
    ELSE IF \E i \in 1..Len(doc.Results.items) :
                doc.Results.items[i].Vulnerabilities.kind = "scalar"
         THEN "TypeError"                                    \* for ... in 7
    ELSE "none"

\* an except clause for the decoder's exception alone
except_JSONDecodeError(exc) == exc = "JSONDecodeError"

\* line 132: except Exception
except_Exception(exc) == exc \in {"OSError", "JSONDecodeError", "AttributeError", "TypeError"}

\* whether an exception leaves parse_trivy_report
parse_raises(doc) == TryRaises(doc) # "none" /\ ~except_Exception(TryRaises(doc))

parse_trivy_report(doc) ==
    IF TryRaises(doc) # "none" THEN NoneReport      \* lines 132-134
    ELSE [ok              |-> TRUE,
          image           |-> Get(doc.ArtifactName, "unknown"),
          scan_time       |-> Get(doc.CreatedAt, ""),
          vulnerabilities |-> CollectVulns(Get(doc.ArtifactName, "unknown"),
                                           doc.Results.items, 1)]

\* parse_trivy_report of each report file, worked out once
ParsedReports == [doc \in ReportDocs \cup RescanDocs |-> parse_trivy_report(doc)]

-----------------------------------------------------------------------------
(* trivy-exporter.py: the registry *)

EmptyMap == [k \in {} |-> 0]

\* dict[key] = value, Gauge.labels(key).set(value)
Put(m, k, v) == [x \in DOMAIN m \cup {k} |-> IF x = k THEN v ELSE m[x]]

\* a clear() that drops nothing
clear_keeps(metric, empty) == metric

\* Gauge.clear(): every labelled child is dropped
clear(metric, empty) == empty

\* str.replace('Z', '+00:00') of a string with at most a final Z
ReplaceZ(s) ==
    IF Len(s) > 0 /\ SubSeq(s, Len(s), Len(s)) = "Z"
    THEN SubSeq(s, 1, Len(s) - 1) \o "+00:00"
    ELSE s

\* the CreatedAt strings of the report files, as parse_trivy_report
\* returns them
ScanTimes == {Get(doc.CreatedAt, "") : doc \in ReportDocs \cup RescanDocs}

\* ReplaceZ of each of them, worked out once
ReplacedZ == [s \in ScanTimes |-> ReplaceZ(s)]

\* datetime.fromisoformat(s).timestamp(), -1 where fromisoformat raises
IsoEpoch(s) ==
    CASE s = "2024-01-01T00:00:00+00:00" -> 1704067200
      [] s = "2024-06-01T12:00:00+00:00" -> 1717243200
      [] OTHER -> -1

\* an update that creates the image's child before it parses the date, so
\* that a date fromisoformat rejects leaves the entry at 0
UpdateTimestamp_labels_first(ts, report_data) ==
    IF report_data.scan_time = "" THEN ts
    ELSE LET epoch == IsoEpoch(ReplacedZ[report_data.scan_time])
         IN  IF epoch < 0 THEN Put(ts, report_data.image, 0)
             ELSE Put(ts, report_data.image, epoch)

\* lines 183-190: the timestamp family after one report
UpdateTimestamp(ts, report_data) ==
    IF report_data.scan_time = "" THEN ts
    ELSE LET epoch == IsoEpoch(ReplacedZ[report_data.scan_time])
         IN  IF epoch < 0 THEN ts ELSE Put(ts, report_data.image, epoch)

\* vuln['fixed_version'][:64] if vuln['fixed_version'] else ''
Truncate(s) ==
    IF s = "" THEN ""
    ELSE IF Len(s) > FixedVersionCap THEN SubSeq(s, 1, FixedVersionCap) ELSE s

\* the fixed_version strings of the findings of the report files, as
\* parse_trivy_report returns them
FixedVersions ==
    UNION {UNION {{Get(vuln.FixedVersion, "") : vuln \in Range(VulnerabilitiesOf(result))} :
                     result \in Range(doc.Results.items)} :
              doc \in ReportDocs}

\* Truncate of each of them, worked out once
Truncated == [s \in FixedVersions |-> Truncate(s)]

InfoLabels(image, vuln) ==
    [vulnerability_id  |-> vuln.vulnerability_id,
     image             |-> image,
     package           |-> vuln.package,
     severity          |-> vuln.severity,
     installed_version |-> vuln.installed_version,
     fixed_version     |-> Truncated[vuln.fixed_version]]

\* a tuple with a list in it cannot be a dict key
Hashable(key) == \A i \in 1..Len(key) : key[i] # JsonList

\* a vuln_counts created once, outside the loop over the reports
FreshVulnCountsStale == vuln_counts

\* line 193: vuln_counts of a report starts empty
FreshVulnCounts == EmptyMap

\* lines 195-216: the loop over the findings of one report.  st holds
\* vuln_counts, the detail family, and whether line 200 raised TypeError
RECURSIVE CountFindings(_, _, _, _)
CountFindings(image, vulns, i, st) ==
    IF i > Len(vulns) THEN st
    ELSE LET vuln == vulns[i]
             key  == <<image, vuln.severity, vuln.package>>
         IN  IF ~Hashable(key) THEN [st EXCEPT !.raised = TRUE]
             ELSE CountFindings(image, vulns, i + 1,
                    [st EXCEPT
                       !.counts = Put(st.counts, key,
                                      (IF key \in DOMAIN st.counts THEN st.counts[key] ELSE 0) + 1),
                       !.info = st.info \cup {InfoLabels(image, vuln)}])

\* lines 218-223: every key of vuln_counts is set in the count family
SetCounts(family, counts) ==
    [k \in DOMAIN family \cup DOMAIN counts |->
        IF k \in DOMAIN counts THEN counts[k] ELSE family[k]]

\* lines 179-223, one usable report: reg is the registry (counts, info,
\* timestamps); the result adds vuln_counts as the loop left it and
\* whether the exception of line 200 left update_metrics
ReportStep(reg, report_data) ==
    LET st == CountFindings(report_data.image, report_data.vulnerabilities, 1,
                            [counts |-> FreshVulnCounts, info |-> reg.info,
                             raised |-> FALSE])
    IN  [counts      |-> IF st.raised THEN reg.counts ELSE SetCounts(reg.counts, st.counts),
         info        |-> st.info,
         timestamps  |-> UpdateTimestamp(reg.timestamps, report_data),
         vuln_counts |-> st.counts,
         raised      |-> st.raised]

-----
(* trivy-exporter.py: history kept for the properties *)

Families == [counts |-> trivy_image_vulnerabilities, info |-> trivy_vulnerability_info]

\* a cycle ended: with is "returned" or "raised"
CycleEnded(h, with) ==
    [h EXCEPT !.runs  = IF h.runs = 0 THEN 1 ELSE 2,
              !.first = IF h.runs = 0 THEN with ELSE h.first,
              !.last  = with,
              !.anyReturned = h.anyReturned \/ with = "returned"]

-----------------------------------------------------------------------------
(* trivy-exporter.py: the HTTP thread *)

Paths == {"/-/healthy", "/-/ready", "/metrics", "/metrics/", "/favicon.ico"}

NoMetrics == [counts |-> EmptyMap, info |-> {}, timestamps |-> EmptyMap, scanned |-> 0]

\* generate_latest(REGISTRY)
generate_latest ==
    [counts     |-> trivy_image_vulnerabilities,
     info       |-> trivy_vulnerability_info,
     timestamps |-> trivy_last_scan_timestamp,
     scanned    |-> trivy_images_scanned]

Response(path, code, body, metrics) ==
    [path |-> path, code |-> code, body |-> body, metrics |-> metrics]

NoResponse == Response("", 0, "", NoMetrics)

\* a handler whose liveness answer follows the readiness flag
do_GET_healthy_when_ready(path) ==
    IF path \in {"/-/healthy", "/-/ready"} THEN
        IF ready THEN Response(path, 200, "OK", NoMetrics)
        ELSE Response(path, 503, "Not ready yet", NoMetrics)
    ELSE IF path \in {"/metrics", "/metrics/"} THEN
        Response(path, 200, "metrics", generate_latest)
    ELSE Response(path, 404, "Not found", NoMetrics)

\* MetricsAndHealthHandler.do_GET
do_GET(path) ==
    IF path = "/-/healthy" THEN Response(path, 200, "OK", NoMetrics)
    ELSE IF path = "/-/ready" THEN
        IF ready THEN Response(path, 200, "Ready", NoMetrics)
        ELSE Response(path, 503, "Not ready yet", NoMetrics)
    ELSE IF path \in {"/metrics", "/metrics/"} THEN
        Response(path, 200, "metrics", generate_latest)
    ELSE Response(path, 404, "Not found", NoMetrics)

\* the server thread handles one GET, at any moment
HttpGet ==
    /\ \E path \in Paths : resp' = do_GET(path)
    /\ UNCHANGED <<reports_dir, trivy_image_vulnerabilities, trivy_vulnerability_info,
                   trivy_last_scan_timestamp, trivy_images_scanned, ready, pc,
                   report_files, idx, images_scanned, vuln_counts, pre, hist>>
    /\ UNCHANGED notFile

-----------------------------------------------------------------------------
(* trivy-exporter.py: main and update_metrics.  resp is the response of  *)
(* a request handled since the main thread's last step: every step of the  *)
(* main thread finds it delivered and the connection closed.               *)

\* a readiness that follows the images-scanned gauge
ready_set_if_scanned == trivy_images_scanned > 0

\* line 247: _ready.set()
ready_set == TRUE

\* an except branch that sets _ready as well
ready_in_except_set == TRUE

\* lines 248-249: the except branch logs and leaves _ready as it is
ready_in_except == ready

\* an except branch that re-raises: main ends
main_after_except_exits == "exit"

\* lines 248-251: after the except branch main goes on to time.sleep
main_after_except == "sleep"

\* a gauge set to the number of report files
images_scanned_total_files == Len(report_files)

\* line 225: the value trivy_images_scanned is set to
images_scanned_total == images_scanned

\* update_metrics is called: lines 144-145 clear the two families
ClearFamilies ==
    /\ pc = "update"
    /\ pre' = Families
    /\ trivy_image_vulnerabilities' = clear(trivy_image_vulnerabilities, EmptyMap)
    /\ trivy_vulnerability_info' = clear(trivy_vulnerability_info, {})
    /\ pc' = "list"
    /\ resp' = NoResponse
    /\ UNCHANGED <<reports_dir, trivy_last_scan_timestamp, trivy_images_scanned, ready,
                   report_files, idx, images_scanned, vuln_counts, hist>>
    /\ UNCHANGED notFile

\* lines 147-169: the directory is absent, no directory, unreadable or has
\* no report: the gauge is set to 0 and update_metrics returns
NoReports ==
    /\ pc = "list"
    /\ reports_dir.kind # "dir" \/ reports_dir.files = <<>>
    /\ trivy_images_scanned' = 0
    /\ pc' = "set_ready"
    /\ resp' = NoResponse
    /\ UNCHANGED <<reports_dir, trivy_image_vulnerabilities, trivy_vulnerability_info,
                   trivy_last_scan_timestamp, ready, report_files, idx, images_scanned,
                   vuln_counts, pre, hist>>
    /\ UNCHANGED notFile

\* lines 157, 171-172: the reports are listed and the loop starts
ListReports ==
    /\ pc = "list"
    /\ reports_dir.kind = "dir" /\ reports_dir.files # <<>>
    /\ report_files' = reports_dir.files
    /\ idx' = 1
    /\ images_scanned' = 0
    /\ pc' = "loop"
    /\ resp' = NoResponse
    /\ UNCHANGED <<reports_dir, trivy_image_vulnerabilities, trivy_vulnerability_info,
                   trivy_last_scan_timestamp, trivy_images_scanned, ready, vuln_counts, pre, hist>>
    /\ UNCHANGED notFile

\* lines 174-177: a report that does not parse is skipped
SkipReport ==
    /\ pc = "loop" /\ idx <= Len(report_files)
    /\ ~ParsedReports[report_files[idx]].ok
    /\ idx' = idx + 1
    /\ resp' = NoResponse
    /\ UNCHANGED <<reports_dir, trivy_image_vulnerabilities, trivy_vulnerability_info,
                   trivy_last_scan_timestamp, trivy_images_scanned, ready, pc,
                   report_files, images_scanned, vuln_counts, pre, hist>>
    /\ UNCHANGED notFile

\* lines 174-223: one report is counted and exported.  When line 200 raises,
\* the exception leaves update_metrics and main logs it (lines 248-249)
ProcessReport ==
    /\ pc = "loop" /\ idx <= Len(report_files)
    /\ ParsedReports[report_files[idx]].ok
    /\ \E after \in {ReportStep([counts     |-> trivy_image_vulnerabilities,
                                 info       |-> trivy_vulnerability_info,
                                 timestamps |-> trivy_last_scan_timestamp],
                                ParsedReports[report_files[idx]])} :
           /\ trivy_image_vulnerabilities' = after.counts
           /\ trivy_vulnerability_info' = after.info
           /\ trivy_last_scan_timestamp' = after.timestamps
           /\ vuln_counts' = after.vuln_counts
           /\ IF after.raised
              THEN /\ pc' = main_after_except
                   /\ ready' = ready_in_except
                   /\ hist' = CycleEnded(hist, "raised")
                   /\ report_files' = <<>> /\ idx' = 1 /\ images_scanned' = 0
              ELSE /\ images_scanned' = images_scanned + 1
                   /\ idx' = idx + 1
                   /\ UNCHANGED <<pc, ready, hist, report_files>>
    /\ resp' = NoResponse
    /\ UNCHANGED <<reports_dir, trivy_images_scanned, pre>>
    /\ UNCHANGED notFile

\* line 225: the loop is over, update_metrics returns
FinishUpdate ==
    /\ pc = "loop" /\ idx > Len(report_files)
    /\ trivy_images_scanned' = images_scanned_total
    /\ pc' = "set_ready"
    /\ report_files' = <<>> /\ idx' = 1 /\ images_scanned' = 0
    /\ resp' = NoResponse
    /\ UNCHANGED <<reports_dir, trivy_image_vulnerabilities, trivy_vulnerability_info,
                   trivy_last_scan_timestamp, ready, vuln_counts, pre, hist>>
    /\ UNCHANGED notFile

\* line 247: update_metrics returned, main sets the readiness flag
SetReady ==
    /\ pc = "set_ready"
    /\ ready' = ready_set
    /\ pc' = "sleep"
    /\ hist' = CycleEnded(hist, "returned")
    /\ resp' = NoResponse
    /\ UNCHANGED <<reports_dir, trivy_image_vulnerabilities, trivy_vulnerability_info,
                   trivy_last_scan_timestamp, trivy_images_scanned, report_files, idx,
                   images_scanned, vuln_counts, pre>>
    /\ UNCHANGED notFile

\* line 251: time.sleep(SCAN_INTERVAL) returns; meanwhile the scanner that
\* writes the reports has left the directory in state d
Sleep ==
    /\ pc = "sleep"
    /\ \E d \in Directories :
          /\ reports_dir' = d
          /\ hist' = [hist EXCEPT !.unchanged = (d = reports_dir)]
    /\ pc' = "update"
    /\ resp' = NoResponse
    /\ UNCHANGED <<trivy_image_vulnerabilities, trivy_vulnerability_info,
                   trivy_last_scan_timestamp, trivy_images_scanned, ready, report_files,
                   idx, images_scanned, vuln_counts, pre>>
    /\ UNCHANGED notFile

-----------------------------------------------------------------------------
(* trivy-prometheus-exporter.py: the cluster and the scanner *)

SystemNamespaces == {"kube-system", "kube-public", "kube-node-lease"}

\* <<image, namespace>> of the containers and init containers that may run
Pods == {<<"app:1.0", "prod">>, <<"app:1.0", "dev">>, <<"coredns", "kube-system">>}

\* what the Kubernetes API answers: ok is FALSE when a list call raises
Clusters == {[ok |-> b, pods |-> ps] : b \in BOOLEAN, ps \in SUBSET Pods}

\* get_images_from_cluster without a namespace filter: the set of images,
\* before list() puts it in some order
get_images_from_cluster(c) ==
    IF c.ok THEN {p \in c.pods : p[2] \notin SystemNamespaces} ELSE {}

\* list(images): the orders a set may be listed in
Orders(S) == {s \in SeqsUpTo(S, Cardinality(S)) : Len(s) = Cardinality(S)}

\* trivy's standard output when it exits 0
ScanFound == Object("app:1.0", Missing, JList(<<Result(JList(<<V1, V4>>))>>))
ScanClean == Object("app:1.0", Missing, JList(<<>>))
ScanNullVulns == Object("app:1.0", Missing, JList(<<Result(JList(<<V3>>)), Result(JNull)>>))
ScanEmpty == Object(Missing, Missing, JMissing)

ScanDocs == {ScanFound, ScanClean, ScanNullVulns, ScanEmpty}

\* how one run of the trivy command ends
ScanOutcomes ==
    {[kind |-> k, stdout |-> ScanEmpty] : k \in {"nonzero", "timeout", "unparsable"}}
    \cup {[kind |-> "ok", stdout |-> d] : d \in ScanDocs}

\* how a run ends that gives no scan data: trivy exits non-zero,
\* subprocess.run times out, or an exception is raised (json.loads)
FailedOutcomes == {"nonzero", "timeout", "unparsable"}

\* Python truth of the parsed output: a dict without keys is false
Truthy(scan_data) ==
    ~(scan_data.ArtifactName = Missing /\ scan_data.CreatedAt = Missing
      /\ scan_data.Results.kind = "missing")

\* Histogram.labels(image).observe(duration)
observe(h, image) ==
    Put(h, image, (IF image \in DOMAIN h THEN h[image] ELSE 0) + 1)

\* scan_image without the check of the exit code
scan_image_ignores_exit(m, image, namespace, outcome, now) ==
    IF outcome.kind = "timeout" THEN
        [m EXCEPT !.errors = Put(m.errors, <<image, namespace>>, 1)]
            @@ [ok |-> FALSE]
    ELSE IF outcome.kind = "unparsable" THEN
        [m EXCEPT !.durations = observe(m.durations, image),
                  !.errors = Put(m.errors, <<image, namespace>>, 1)]
            @@ [ok |-> FALSE]
    ELSE
        [m EXCEPT !.durations = observe(m.durations, image),
                  !.timestamps = Put(m.timestamps, <<image, namespace>>, now),
                  !.errors = Put(m.errors, <<image, namespace>>, 0)]
            @@ [ok |-> TRUE]

\* scan_image whose successful path leaves the error gauge as it was
scan_image_keeps_error(m, image, namespace, outcome, now) ==
    IF outcome.kind = "timeout" THEN
        [m EXCEPT !.errors = Put(m.errors, <<image, namespace>>, 1)]
            @@ [ok |-> FALSE]
    ELSE IF outcome.kind \in {"nonzero", "unparsable"} THEN
        [m EXCEPT !.durations = observe(m.durations, image),
                  !.errors = Put(m.errors, <<image, namespace>>, 1)]
            @@ [ok |-> FALSE]
    ELSE
        [m EXCEPT !.durations = observe(m.durations, image),
                  !.timestamps = Put(m.timestamps, <<image, namespace>>, now)]
            @@ [ok |-> TRUE]

\* scan_image: m is the metrics (timestamps, durations, errors), now the
\* clock; ok says whether scan_data was returned (None otherwise)
scan_image(m, image, namespace, outcome, now) ==
    IF outcome.kind = "timeout" THEN
        \* subprocess.run raises TimeoutExpired: lines 142-145
        [m EXCEPT !.errors = Put(m.errors, <<image, namespace>>, 1)]
            @@ [ok |-> FALSE]
    ELSE IF outcome.kind = "nonzero" THEN
        \* lines 124-130
        [m EXCEPT !.durations = observe(m.durations, image),
                  !.errors = Put(m.errors, <<image, namespace>>, 1)]
            @@ [ok |-> FALSE]
    ELSE IF outcome.kind = "unparsable" THEN
        \* json.loads raises: lines 124-125, 147-150
        [m EXCEPT !.durations = observe(m.durations, image),
                  !.errors = Put(m.errors, <<image, namespace>>, 1)]
            @@ [ok |-> FALSE]
    ELSE
        \* lines 124-140
        [m EXCEPT !.durations = observe(m.durations, image),
                  !.timestamps = Put(m.timestamps, <<image, namespace>>, now),
                  !.errors = Put(m.errors, <<image, namespace>>, 0)]
            @@ [ok |-> TRUE]

\* a run that sleeps the interval after a failed cycle as well
sleep_after_failure_interval(i) == i

\* line 220: time.sleep(60)
sleep_after_failure(i) == RetrySeconds

\* lines 166-181: the labels of one finding
GaugeLabels(image, namespace, vuln) ==
    [image             |-> image,
     severity          |-> Get(vuln.Severity, "UNKNOWN"),
     namespace         |-> namespace,
     vuln_id           |-> Get(vuln.VulnerabilityID, "N/A"),
     package_name      |-> Get(vuln.PkgName, "N/A"),
     installed_version |-> Get(vuln.InstalledVersion, "N/A"),
     fixed_version     |-> Get(vuln.FixedVersion, "N/A")]

\* lines 162-183: the loop over Results; st is the gauge and whether
\* iterating a null Vulnerabilities raised TypeError
RECURSIVE ProcessResults(_, _, _, _, _)
ProcessResults(image, namespace, results, i, st) ==
    IF i > Len(results) THEN st
    ELSE LET vs == results[i].Vulnerabilities
         IN  IF vs.kind \in {"null", "scalar"} THEN [st EXCEPT !.raised = TRUE]
             ELSE ProcessResults(image, namespace, results, i + 1,
                    [st EXCEPT !.gauge = st.gauge \cup
                        {GaugeLabels(image, namespace, vs.items[j]) :
                             j \in 1..Len(vs.items)}])

\* process_scan_results
process_scan_results(gauge, image, namespace, scan_data) ==
    IF ~Truthy(scan_data) \/ scan_data.Results.kind = "missing"
    THEN [gauge |-> gauge, raised |-> FALSE]
    ELSE IF scan_data.Results.kind \in {"null", "scalar"}
    THEN [gauge |-> gauge, raised |-> TRUE]
    ELSE ProcessResults(image, namespace, scan_data.Results.items, 1,
                        [gauge |-> gauge, raised |-> FALSE])

-----------------------------------------------------------------------------
(* trivy-prometheus-exporter.py: run and scan_all_images *)

NoScan == [image |-> "", namespace |-> "", outcome |-> "none", returned |-> FALSE,
           processed |-> FALSE, raised |-> FALSE, observations |-> 0,
           reset |-> FALSE]

\* the observations histogram h holds for image
Observations(h, image) == IF image \in DOMAIN h THEN h[image] ELSE 0

NoCycle == [scanned |-> {}, written |-> {}]

\* lines 209-210, 189-193: a cycle starts and lists the images of the
\* cluster, which is in state c
StartCycle ==
    /\ ipc = "cycle"
    /\ cycleNo < MaxCycles
    /\ cycleNo' = cycleNo + 1
    /\ \E c \in Clusters :
          /\ cluster' = c
          /\ images' \in Orders(get_images_from_cluster(c))
    /\ cur' = 1
    /\ ipc' = IF images' = <<>> THEN "sleep" ELSE "scan"
    /\ sleeping' = IF images' = <<>> THEN interval ELSE 0
    /\ scan_log' = NoScan
    /\ cycle_log' = NoCycle
    /\ UNCHANGED <<vulnerability_gauge, last_scan_timestamp, scan_duration, scan_errors>>
    /\ UNCHANGED <<latest_scan, interval, notInventory>>

\* lines 195-201: one image is scanned and its findings exported.  An
\* exception of process_scan_results leaves scan_all_images and is caught
\* by run (lines 218-220)
ScanOne ==
    /\ ipc = "scan" /\ cur <= Len(images)
    /\ \E outcome \in ScanOutcomes :
          LET image     == images[cur][1]
              namespace == images[cur][2]
              m == scan_image([timestamps |-> last_scan_timestamp,
                               durations  |-> scan_duration,
                               errors     |-> scan_errors],
                              image, namespace, outcome, cycleNo)
              processed == m.ok /\ Truthy(outcome.stdout)
              p == IF processed
                   THEN process_scan_results(vulnerability_gauge, image, namespace,
                                             outcome.stdout)
                   ELSE [gauge |-> vulnerability_gauge, raised |-> FALSE]
          IN  /\ last_scan_timestamp' = m.timestamps
              /\ scan_duration' = m.durations
              /\ scan_errors' = m.errors
              /\ vulnerability_gauge' = p.gauge
              /\ scan_log' = [image |-> image, namespace |-> namespace,
                              outcome |-> outcome.kind, returned |-> m.ok,
                              processed |-> processed, raised |-> p.raised,
                              observations |-> Observations(m.durations, image)
                                               - Observations(scan_duration, image),
                              reset |-> /\ <<image, namespace>> \in DOMAIN scan_errors
                                        /\ scan_errors[<<image, namespace>>] = 1
                                        /\ m.errors[<<image, namespace>>] = 0]
              /\ latest_scan' = Put(latest_scan, <<image, namespace>>,
                                    [failed   |-> outcome.kind \in FailedOutcomes,
                                     returned |-> m.ok])
              /\ cycle_log' =
                     [scanned |-> cycle_log.scanned \cup {<<image, namespace>>},
                      written |-> cycle_log.written \cup
                                      (IF processed
                                       THEN process_scan_results({}, image, namespace,
                                                                 outcome.stdout).gauge
                                       ELSE {})]
              /\ IF p.raised
                 THEN /\ ipc' = "backoff" /\ cur' = 1 /\ images' = <<>>
                      /\ sleeping' = sleep_after_failure(interval)
                 ELSE /\ ipc' = ipc /\ cur' = cur + 1 /\ images' = images
                      /\ sleeping' = sleeping
    /\ UNCHANGED <<cluster, cycleNo>>
    /\ UNCHANGED <<interval, notInventory>>

\* the loop of scan_all_images is over; run logs and sleeps (lines 211-212)
EndCycle ==
    /\ ipc = "scan" /\ cur > Len(images)
    /\ ipc' = "sleep"
    /\ sleeping' = interval
    /\ cur' = 1 /\ images' = <<>>
    /\ UNCHANGED <<cluster, vulnerability_gauge, last_scan_timestamp, scan_duration,
                   scan_errors, cycleNo, scan_log, cycle_log>>
    /\ UNCHANGED <<latest_scan, interval, notInventory>>

\* line 212: time.sleep(interval) returns
SleepInterval ==
    /\ ipc = "sleep"
    /\ ipc' = "cycle"
    /\ sleeping' = 0
    /\ UNCHANGED <<cluster, vulnerability_gauge, last_scan_timestamp, scan_duration,
                   scan_errors, images, cur, cycleNo, scan_log, cycle_log>>
    /\ UNCHANGED <<latest_scan, interval, notInventory>>

\* line 220: time.sleep(60) returns
SleepBackoff ==
    /\ ipc = "backoff"
    /\ ipc' = "cycle"
    /\ sleeping' = 0
    /\ UNCHANGED <<cluster, vulnerability_gauge, last_scan_timestamp, scan_duration,
                   scan_errors, images, cur, cycleNo, scan_log, cycle_log>>
    /\ UNCHANGED <<latest_scan, interval, notInventory>>

(* dashboard/trivy_exporter.py *)

\* lines 52-81: the exception the try block of parse_trivy_report raises.
\* Vulnerabilities is read without "or []": a null one raises as well
dash_TryRaises(doc) ==
    IF doc.kind = "undecodable" THEN "JSONDecodeError"
    ELSE IF doc.kind # "object" THEN "AttributeError"
    ELSE IF doc.Results.kind \in {"null", "scalar"} THEN "TypeError"
    ELSE IF \E i \in 1..Len(doc.Results.items) :
                doc.Results.items[i].Vulnerabilities.kind \in {"null", "scalar"}
         THEN "TypeError"
    ELSE "none"

\* parse_trivy_report of the dashboard exporter (target and title are read
\* but the documents here have neither, and they are left out)
dash_parse_trivy_report(doc) ==
    IF dash_TryRaises(doc) # "none" THEN NoneReport
    ELSE [ok              |-> TRUE,
          image           |-> Get(doc.ArtifactName, "unknown"),
          scan_time       |-> Get(doc.CreatedAt, ""),
          vulnerabilities |-> CollectVulns(Get(doc.ArtifactName, "unknown"),
                                           doc.Results.items, 1)]

\* list(reports_path.glob('*.json')): globbing a plain file or a directory
\* that cannot be listed yields nothing
dash_glob(d) == IF d.kind = "dir" THEN d.files ELSE <<>>

\* lines 132-154: the loop over the findings of one report
RECURSIVE dash_CountFindings(_, _, _, _)
dash_CountFindings(image, vulns, i, st) ==
    IF i > Len(vulns) THEN st
    ELSE LET vuln == vulns[i]
             key  == <<image, vuln.severity, vuln.package>>
         IN  IF ~Hashable(key) THEN [st EXCEPT !.raised = TRUE]
             ELSE dash_CountFindings(image, vulns, i + 1,
                    [st EXCEPT
                       !.counts = Put(st.counts, key,
                                      (IF key \in DOMAIN st.counts THEN st.counts[key] ELSE 0) + 1),
                       !.info = Put(st.info,
                                    <<vuln.vulnerability_id, image, vuln.package, vuln.severity>>,
                                    [installed_version |-> vuln.installed_version,
                                     fixed_version     |-> vuln.fixed_version,
                                     title             |-> ""])])

\* lines 116-160, one usable report
dash_ReportStep(reg, report_data) ==
    LET st == dash_CountFindings(report_data.image, report_data.vulnerabilities, 1,
                                 [counts |-> EmptyMap, info |-> reg.info, raised |-> FALSE])
    IN  [counts     |-> IF st.raised THEN reg.counts ELSE SetCounts(reg.counts, st.counts),
         info       |-> st.info,
         timestamps |-> UpdateTimestamp(reg.timestamps, report_data),
         raised     |-> st.raised]

dash_CycleEnded(h, with) ==
    [h EXCEPT !.runs = IF h.runs = 0 THEN 1 ELSE 2, !.last = with]

\* lines 90-94: REPORTS_DIR does not exist, update_metrics returns
DashMissing ==
    /\ dash_pc = "update"
    /\ dash_reports_dir.kind = "missing"
    /\ dash_pc' = "sleep"
    /\ dash_hist' = dash_CycleEnded(dash_hist, "returned")
    /\ UNCHANGED <<dash_reports_dir, dash_image_vulnerabilities, dash_vulnerability_id,
                   dash_last_scan_timestamp, dash_images_scanned, dash_report_files,
                   dash_idx, dash_count>>
    /\ UNCHANGED notDashboard

\* lines 97-104: the count family is cleared, no report is found,
\* update_metrics returns
DashNoReports ==
    /\ dash_pc = "update"
    /\ dash_reports_dir.kind # "missing"
    /\ dash_glob(dash_reports_dir) = <<>>
    /\ dash_image_vulnerabilities' = EmptyMap
    /\ dash_pc' = "sleep"
    /\ dash_hist' = dash_CycleEnded(dash_hist, "returned")
    /\ UNCHANGED <<dash_reports_dir, dash_vulnerability_id, dash_last_scan_timestamp,
                   dash_images_scanned, dash_report_files, dash_idx, dash_count>>
    /\ UNCHANGED notDashboard

\* lines 97-108: the count family is cleared, the reports are listed and
\* the loop starts
DashListReports ==
    /\ dash_pc = "update"
    /\ dash_reports_dir.kind # "missing"
    /\ dash_glob(dash_reports_dir) # <<>>
    /\ dash_image_vulnerabilities' = EmptyMap
    /\ dash_report_files' = dash_glob(dash_reports_dir)
    /\ dash_idx' = 1
    /\ dash_count' = 0
    /\ dash_pc' = "loop"
    /\ UNCHANGED <<dash_reports_dir, dash_vulnerability_id, dash_last_scan_timestamp,
                   dash_images_scanned, dash_hist>>
    /\ UNCHANGED notDashboard

\* lines 110-114: a report that does not parse is skipped
DashSkipReport ==
    /\ dash_pc = "loop" /\ dash_idx <= Len(dash_report_files)
    /\ ~dash_parse_trivy_report(dash_report_files[dash_idx]).ok
    /\ dash_idx' = dash_idx + 1
    /\ UNCHANGED <<dash_reports_dir, dash_image_vulnerabilities, dash_vulnerability_id,
                   dash_last_scan_timestamp, dash_images_scanned, dash_pc,
                   dash_report_files, dash_count, dash_hist>>
    /\ UNCHANGED notDashboard

\* lines 110-160: one report is counted and exported.  When line 137 raises,
\* the exception leaves update_metrics and main logs it (lines 181-182)
DashProcessReport ==
    /\ dash_pc = "loop" /\ dash_idx <= Len(dash_report_files)
    /\ LET report_data == dash_parse_trivy_report(dash_report_files[dash_idx])
           after == dash_ReportStep([counts     |-> dash_image_vulnerabilities,
                                     info       |-> dash_vulnerability_id,
                                     timestamps |-> dash_last_scan_timestamp],
                                    report_data)
       IN  /\ report_data.ok
           /\ dash_image_vulnerabilities' = after.counts
           /\ dash_vulnerability_id' = after.info
           /\ dash_last_scan_timestamp' = after.timestamps
           /\ IF after.raised
              THEN /\ dash_pc' = "sleep"
                   /\ dash_hist' = dash_CycleEnded(dash_hist, "raised")
                   /\ dash_report_files' = <<>> /\ dash_idx' = 1 /\ dash_count' = 0
              ELSE /\ dash_count' = dash_count + 1
                   /\ dash_idx' = dash_idx + 1
                   /\ UNCHANGED <<dash_pc, dash_hist, dash_report_files>>
    /\ UNCHANGED <<dash_reports_dir, dash_images_scanned>>
    /\ UNCHANGED notDashboard

\* lines 163-165: the loop is over, the gauge is set, update_metrics returns
DashFinishUpdate ==
    /\ dash_pc = "loop" /\ dash_idx > Len(dash_report_files)
    /\ dash_images_scanned' = dash_count
    /\ dash_pc' = "sleep"
    /\ dash_hist' = dash_CycleEnded(dash_hist, "returned")
    /\ dash_report_files' = <<>> /\ dash_idx' = 1 /\ dash_count' = 0
    /\ UNCHANGED <<dash_reports_dir, dash_image_vulnerabilities, dash_vulnerability_id,
                   dash_last_scan_timestamp>>
    /\ UNCHANGED notDashboard

\* line 184: time.sleep(SCAN_INTERVAL) returns; meanwhile the directory
\* has come to state d
DashSleep ==
    /\ dash_pc = "sleep"
    /\ \E d \in Directories : dash_reports_dir' = d
    /\ dash_pc' = "update"
    /\ UNCHANGED <<dash_image_vulnerabilities, dash_vulnerability_id,
                   dash_last_scan_timestamp, dash_images_scanned, dash_report_files,
                   dash_idx, dash_count, dash_hist>>
    /\ UNCHANGED notDashboard

-----------------------------------------------------------------------------
(* One call of parse_trivy_report (trivy-exporter.py) or of                 *)
(* process_scan_results (trivy-prometheus-exporter.py) on one document      *)

Present(value) == {Missing, value}

\* one finding with each of its keys present or absent
FieldVulns ==
    {Vuln(id, pkg, inst, fixed, sev) :
        id \in Present("CVE-1"), pkg \in Present("libfoo"), inst \in Present("1.0"),
        fixed \in Present("1.2"), sev \in Present("HIGH")}

FieldDocs ==
    {Object(name, Missing, JList(<<Result(JList(<<vuln>>))>>)) :
        name \in Present("app:1.0"), vuln \in FieldVulns}

\* documents that are no object, or whose Results or Vulnerabilities is
\* absent, null, a number or empty
ShapeDocs ==
    {Unreadable, Undecodable, NotObject}
    \cup {Object("app:1.0", Missing, results) :
             results \in {JNull, JMissing, JScalar, JList(<<>>)}}
    \cup {Object("app:1.0", Missing, JList(<<Result(JList(<<V3>>)), Result(vulns)>>)) :
             vulns \in {JNull, JMissing, JScalar, JList(<<>>)}}

Documents == FieldDocs \cup ShapeDocs \cup ReportDocs \cup ScanDocs

NoCall == [function |-> "none", raised |-> FALSE, report |-> NoneReport, gauge |-> {}]

\* parse_trivy_report(document) of trivy-exporter.py
CallParse ==
    /\ call = NoCall
    /\ call' = [function |-> "parse_trivy_report",
                raised   |-> parse_raises(document),
                report   |-> parse_trivy_report(document),
                gauge    |-> {}]
    /\ UNCHANGED document
    /\ UNCHANGED notCall

\* process_scan_results("app:1.0", "prod", document) on an empty family;
\* scan_image hands over only what json.loads decoded
CallProcess ==
    /\ call = NoCall
    /\ document.kind \notin {"unreadable", "undecodable"}
    /\ LET p == process_scan_results({}, "app:1.0", "prod", document)
       IN  call' = [function |-> "process_scan_results",
                    raised   |-> p.raised,
                    report   |-> NoneReport,
                    gauge    |-> p.gauge]
    /\ UNCHANGED document
    /\ UNCHANGED notCall

-----------------------------------------------------------------------------
(* Initial states and specifications *)

FileExporter == "trivy-exporter.py"
InventoryExporter == "trivy-prometheus-exporter.py"
DashboardExporter == "dashboard/trivy_exporter.py"

NoDirectory == [kind |-> "missing", files |-> <<>>]

InitInventory ==
    /\ cluster = [ok |-> TRUE, pods |-> {}]
    /\ vulnerability_gauge = {}
    /\ last_scan_timestamp = EmptyMap
    /\ scan_duration = EmptyMap
    /\ scan_errors = EmptyMap
    /\ ipc = "cycle"
    /\ images = <<>>
    /\ cur = 1
    /\ cycleNo = 0
    /\ scan_log = NoScan
    /\ cycle_log = NoCycle
    /\ latest_scan = EmptyMap
    /\ sleeping = 0

InitFile ==
    /\ trivy_image_vulnerabilities = EmptyMap
    /\ trivy_vulnerability_info = {}
    /\ trivy_last_scan_timestamp = EmptyMap
    /\ trivy_images_scanned = 0
    /\ ready = FALSE
    /\ pc = "update"
    /\ report_files = <<>>
    /\ idx = 1
    /\ images_scanned = 0
    /\ vuln_counts = EmptyMap
    /\ resp = NoResponse
    /\ pre = [counts |-> EmptyMap, info |-> {}]
    /\ hist = [runs |-> 0, first |-> "none", last |-> "none", anyReturned |-> FALSE,
               unchanged |-> FALSE]

InitDashboard ==
    /\ dash_image_vulnerabilities = EmptyMap
    /\ dash_vulnerability_id = EmptyMap
    /\ dash_last_scan_timestamp = EmptyMap
    /\ dash_images_scanned = 0
    /\ dash_pc = "update"
    /\ dash_report_files = <<>>
    /\ dash_idx = 1
    /\ dash_count = 0
    /\ dash_hist = [runs |-> 0, last |-> "none"]

\* the variables of the programs that do not run
IdleFile == reports_dir = NoDirectory /\ InitFile
IdleInventory == interval = DefaultInterval /\ InitInventory
IdleDashboard == dash_reports_dir = NoDirectory /\ InitDashboard
IdleCall == document = Undecodable /\ call = NoCall

\* the file-backed exporter starts with the directory in any state
Init ==
    /\ program = FileExporter
    /\ reports_dir \in Directories
    /\ InitFile
    /\ IdleInventory /\ IdleDashboard /\ IdleCall

Next ==
    \/ HttpGet
    \/ ClearFamilies
    \/ NoReports
    \/ ListReports
    \/ SkipReport
    \/ ProcessReport
    \/ FinishUpdate
    \/ SetReady
    \/ Sleep

Spec == Init /\ [][Next]_vars

\* the inventory-backed exporter, started with any of the intervals
InitInv ==
    /\ program = InventoryExporter
    /\ interval \in Intervals
    /\ InitInventory
    /\ IdleFile /\ IdleDashboard /\ IdleCall

NextInventory ==
    \/ StartCycle
    \/ ScanOne
    \/ EndCycle
    \/ SleepInterval
    \/ SleepBackoff

SpecInventory == InitInv /\ [][NextInventory]_vars

\* the dashboard exporter
InitDash ==
    /\ program = DashboardExporter
    /\ dash_reports_dir \in Directories
    /\ InitDashboard
    /\ IdleFile /\ IdleInventory /\ IdleCall

NextDashboard ==
    \/ DashMissing
    \/ DashNoReports
    \/ DashListReports
    \/ DashSkipReport
    \/ DashProcessReport
    \/ DashFinishUpdate
    \/ DashSleep

SpecDashboard == InitDash /\ [][NextDashboard]_vars

\* one call on one of the documents
InitParse ==
    /\ program = "call"
    /\ document \in Documents
    /\ call = NoCall
    /\ IdleFile /\ IdleInventory /\ IdleDashboard

NextParse ==
    \/ CallParse
    \/ CallProcess

SpecParse == InitParse /\ [][NextParse]_vars

\* the main thread of a process that runs trivy-exporter.py (main) or
\* trivy-prometheus-exporter.py (run): while it can take a step it is
\* scheduled again, and time.sleep returns.  The HTTP thread is left out:
\* its steps write resp alone, which no step of main reads.
FairInit == Init \/ InitInv

MainThread ==
    /\ program = FileExporter
    /\ \/ ClearFamilies
       \/ NoReports
       \/ ListReports
       \/ SkipReport
       \/ ProcessReport
       \/ FinishUpdate
       \/ SetReady
       \/ Sleep

RunThread ==
    /\ program = InventoryExporter
    /\ NextInventory

FairNext ==
    \/ MainThread
    \/ RunThread

FairSpec == FairInit /\ [][FairNext]_vars /\ WF_vars(MainThread) /\ WF_vars(RunThread)

-----------------------------------------------------------------------------
(* Properties of the file-backed exporter (Spec) *)

MetricsPaths == {"/metrics", "/metrics/"}

\* the count and detail families a response to /metrics shows
Seen == [counts |-> resp.metrics.counts, info |-> resp.metrics.info]

\* lines 174-223 as a whole: the loop of update_metrics over files from
\* position i, from registry reg, up to its end or to the exception
RECURSIVE RunReports(_, _, _)
RunReports(files, i, reg) ==
    IF i > Len(files) THEN reg
    ELSE LET report_data == parse_trivy_report(files[i])
         IN  IF ~report_data.ok THEN RunReports(files, i + 1, reg)
             ELSE LET after == ReportStep(reg, report_data)
                  IN  IF after.raised THEN after ELSE RunReports(files, i + 1, after)

\* what a cycle over directory d leaves in the registry
CycleOver(d) ==
    RunReports(IF d.kind = "dir" THEN d.files ELSE <<>>, 1,
               [counts |-> EmptyMap, info |-> {}, timestamps |-> EmptyMap,
                vuln_counts |-> EmptyMap, raised |-> FALSE])

\* the snapshots a scrape may show while update_metrics runs: the one
\* exported when it was called and, when the cycle completes, the new one
WholeSnapshots ==
    {pre} \cup (IF CycleOver(reports_dir).raised THEN {}
                ELSE {[counts |-> CycleOver(reports_dir).counts,
                       info   |-> CycleOver(reports_dir).info]})

\* C1: a GET /metrics handled while update_metrics runs shows, for the count
\* and the detail family, the label set of the previous cycle or that of
\* the new cycle, never an empty, partial or mixed one.
C1_ScrapeSeesWholeSnapshot ==
    (resp.path \in MetricsPaths /\ pc \in {"list", "loop"}) => Seen \in WholeSnapshots

\* C2: after a cycle in which update_metrics raised, the count and detail
\* families are those exported before that cycle started.
C2_FailedCycleKeepsSnapshot ==
    (pc = "sleep" /\ hist.last = "raised") => Families = pre

\* the status GET /-/ready is answered with in the current state
ReadyCode == do_GET("/-/ready").code

RECURSIVE NumFindings(_, _)
NumFindings(results, i) ==
    IF i > Len(results) THEN 0
    ELSE Len(VulnerabilitiesOf(results[i])) + NumFindings(results, i + 1)

RECURSIVE TotalFindings(_, _)
TotalFindings(files, i) ==
    IF i > Len(files) THEN 0
    ELSE NumFindings(files[i].Results.items, 1) + TotalFindings(files, i + 1)

\* the sum of the values of a family
RECURSIVE SumOf(_, _)
SumOf(family, keys) ==
    IF keys = {} THEN 0
    ELSE LET k == CHOOSE x \in keys : TRUE
         IN  family[k] + SumOf(family, keys \ {k})

\* every report file of the cycle's directory parsed to a report
AllValid == \A i \in 1..Len(reports_dir.files) : parse_trivy_report(reports_dir.files[i]).ok

\* C8: after a completed cycle whose report files are all valid and hold N
\* findings together, the values of the count family sum to N.
C8_CountsSumToFindings ==
    (pc = "sleep" /\ hist.last = "returned" /\ reports_dir.kind = "dir" /\ AllValid)
        => SumOf(trivy_image_vulnerabilities, DOMAIN trivy_image_vulnerabilities)
               = TotalFindings(reports_dir.files, 1)

\* C9: when update_metrics has run on the directory the run before it saw,
\* the count and detail families are what that earlier run left.
C9_SecondRunSameFamilies ==
    (pc \in {"set_ready", "sleep"} /\ hist.unchanged) => Families = pre

\* C9 witness: a second run over an unchanged directory of two reports has
\* returned and exported entries
C9_Witness ==
    /\ pc = "set_ready" /\ hist.unchanged /\ hist.last = "returned"
    /\ Len(reports_dir.files) > 1
    /\ trivy_image_vulnerabilities # EmptyMap
    /\ Families = pre

\* C10: after a cycle that found no report directory the images-scanned
\* gauge is 0, the count and detail families are empty, update_metrics
\* has returned and the readiness flag is set.
C10_MissingDirectory ==
    (pc = "sleep" /\ hist.runs > 0 /\ reports_dir.kind = "missing")
        => /\ trivy_images_scanned = 0
           /\ trivy_image_vulnerabilities = EmptyMap
           /\ trivy_vulnerability_info = {}
           /\ hist.last = "returned"
           /\ ready /\ ReadyCode = 200

\* C10 witness: such a cycle has completed after one that exported entries
\* and a non-zero gauge
C10_Witness ==
    /\ pc = "sleep" /\ hist.runs > 1 /\ reports_dir.kind = "missing"
    /\ pre.counts # EmptyMap /\ pre.info # {}
    /\ trivy_images_scanned = 0 /\ trivy_image_vulnerabilities = EmptyMap

-----------------------------------------------------------------------------
(* Properties of the inventory-backed exporter (SpecInventory) *)

CycleDone == cycleNo > 0 /\ ipc \in {"sleep", "backoff"}

\* C5: after every completed cycle the vulnerability family holds exactly
\* the findings that cycle's scans returned.
C5_FullReplace ==
    (cycleNo > 0 /\ ipc = "sleep") => vulnerability_gauge = cycle_log.written

\* C6: in every cycle scan_image is called for every subject the cycle
\* enumerated, whatever happened to the other subjects.
C6_EverySubjectScanned ==
    CycleDone => cycle_log.scanned = get_images_from_cluster(cluster)

\* the other subjects, and the other images, of a scan of <<image, namespace>>
OtherSubjects(m, image, namespace) == DOMAIN m \ {<<image, namespace>>}

\* the entries of family m at the keys ks
Restrict(m, ks) == [k \in ks |-> m[k]]

-----------------------------------------------------------------------------
(* Properties of the scheduler loops (FairSpec, SpecInventory) *)

\* a cycle has started: main is inside update_metrics, run has started
\* the last of the MaxCycles cycles of the model
CycleStarted ==
    \/ program = FileExporter /\ pc = "list"
    \/ program = InventoryExporter /\ cycleNo = MaxCycles

\* C11: whatever has happened, cycles that returned and cycles that ended
\* with an exception included, another cycle starts later: in main of
\* trivy-exporter.py again and again for ever, in run of
\* trivy-prometheus-exporter.py up to the last of the MaxCycles cycles.
C11_CyclesRecur == []<>CycleStarted

\* C11 witness: main has started a cycle after two cycles, the last of
\* which ended with an exception
C11_Witness ==
    /\ program = FileExporter
    /\ pc = "list" /\ hist.runs > 1 /\ hist.last = "raised"

\* C12 as stated: the sleep run starts after a failed cycle is at least the
\* configured interval.
C12_FailedSleepAtLeastInterval ==
    ipc = "backoff" => sleeping >= interval

\* C12 as amended: the sleep run starts after a failed cycle is 60 seconds
\* whatever the configured interval, so it is at least the interval exactly
\* when the interval is at most 60 seconds; the sleep after a successful
\* cycle is the interval.
C12_FailedSleepIsSixtySeconds ==
    /\ ipc = "backoff" => /\ sleeping = 60
                          /\ (sleeping >= interval) <=> (interval <= 60)
    /\ ipc = "sleep" => sleeping = interval

\* C12 witness: run sleeps after a failed cycle, for less than the interval
\* it was started with
C12_Witness ==
    /\ ipc = "backoff" /\ scan_log.raised
    /\ interval = DefaultInterval /\ sleeping < interval

-----------------------------------------------------------------------------
(* Properties of the functions that read a document (SpecParse) *)

\* C13: parse_trivy_report lets no exception out: it gives a report or
\* None, and None for a document that is no object.
C13_ParseNeverRaises ==
    call.function = "parse_trivy_report"
        => /\ ~call.raised
           /\ call.report.ok \/ call.report = NoneReport
           /\ document.kind # "object" => call.report = NoneReport

\* C13 witness: None was returned for an object one of whose Vulnerabilities
\* is a number
C13_Witness ==
    /\ call.function = "parse_trivy_report" /\ ~call.raised /\ call.report = NoneReport
    /\ document.kind = "object" /\ document.Results.kind = "list"
    /\ \E i \in 1..Len(document.Results.items) :
          document.Results.items[i].Vulnerabilities.kind = "scalar"

\* the one finding of a document of FieldDocs
Finding(doc) == doc.Results.items[1].Vulnerabilities.items[1]

OrElse(value, default) == IF value = Missing THEN default ELSE value

\* what the parser is to make of finding raw
ExpectedParsed(raw) ==
    [vulnerability_id  |-> OrElse(raw.VulnerabilityID, ""),
     package           |-> OrElse(raw.PkgName, ""),
     installed_version |-> OrElse(raw.InstalledVersion, ""),
     fixed_version     |-> OrElse(raw.FixedVersion, ""),
     severity          |-> OrElse(raw.Severity, "UNKNOWN")]

\* what the result processing is to export of finding raw, a string key
\* that is absent being exported as absent
ExpectedLabels(raw, absent) ==
    [vuln_id           |-> OrElse(raw.VulnerabilityID, absent),
     package_name      |-> OrElse(raw.PkgName, absent),
     installed_version |-> OrElse(raw.InstalledVersion, absent),
     fixed_version     |-> OrElse(raw.FixedVersion, absent),
     severity          |-> OrElse(raw.Severity, "UNKNOWN")]

ParsedFields(v) ==
    [vulnerability_id |-> v.vulnerability_id, package |-> v.package,
     installed_version |-> v.installed_version, fixed_version |-> v.fixed_version,
     severity |-> v.severity]

LabelFields(l) ==
    [vuln_id |-> l.vuln_id, package_name |-> l.package_name,
     installed_version |-> l.installed_version, fixed_version |-> l.fixed_version,
     severity |-> l.severity]

\* parse_trivy_report keeps the report and defaults Severity to UNKNOWN and
\* the string keys to the empty string
ParseDefaults ==
    (call.function = "parse_trivy_report" /\ document \in FieldDocs)
        => /\ ~call.raised /\ call.report.ok
           /\ Len(call.report.vulnerabilities) = 1
           /\ ParsedFields(call.report.vulnerabilities[1]) = ExpectedParsed(Finding(document))

\* process_scan_results exports the finding, with Severity defaulted to
\* UNKNOWN and the string keys to absent
ProcessDefaults(absent) ==
    (call.function = "process_scan_results" /\ document \in FieldDocs)
        => /\ ~call.raised
           /\ {LabelFields(l) : l \in call.gauge} = {ExpectedLabels(Finding(document), absent)}

\* C18 as stated: a finding without Severity is exported with UNKNOWN and
\* one without VulnerabilityID, PkgName, InstalledVersion or FixedVersion
\* with the empty string, by parse_trivy_report and by process_scan_results.
C18_DefaultsEmptyString ==
    ParseDefaults /\ ProcessDefaults("")

\* C18 as amended: a finding without Severity is exported with UNKNOWN by
\* both; one without VulnerabilityID, PkgName, InstalledVersion or
\* FixedVersion is exported with the empty string by parse_trivy_report and
\* with N/A by process_scan_results; neither fails on the absent key.
C18_DefaultsPerExporter ==
    ParseDefaults /\ ProcessDefaults("N/A")

\* C18 witness: process_scan_results exported a finding that has none of
\* its keys
C18_Witness ==
    /\ call.function = "process_scan_results" /\ document \in FieldDocs
    /\ Finding(document) = V4
    /\ \E l \in call.gauge : l.vuln_id = "N/A" /\ l.severity = "UNKNOWN"

-----------------------------------------------------------------------------
(* More properties of the file-backed exporter (Spec) *)

UsableReports(d) ==
    IF d.kind = "dir"
    THEN Cardinality({i \in 1..Len(d.files) : parse_trivy_report(d.files[i]).ok})
    ELSE 0

\* directory d without the file doc
Without(d, doc) == [d EXCEPT !.files = SelectSeq(d.files, LAMBDA f : f # doc)]

\* what the first cycle of the exporter exports when it returns from
\* directory d
Exported(d) ==
    [counts     |-> CycleOver(d).counts,
     info       |-> CycleOver(d).info,
     timestamps |-> CycleOver(d).timestamps,
     scanned    |-> UsableReports(d)]

\* C16: after a cycle over a directory with a file that cannot be decoded,
\* the exported metrics differ from those of a cycle over the directory
\* without that file.
C16_UndecodableIsVisible ==
    (pc = "sleep" /\ hist.runs = 1 /\ hist.last = "returned"
     /\ reports_dir.kind = "dir" /\ Undecodable \in Range(reports_dir.files))
        => generate_latest # Exported(Without(reports_dir, Undecodable))

\* C17: after update_metrics has returned, the images-scanned gauge is the
\* number of report files parse_trivy_report gave a report for, and 0 when
\* the directory is missing, no directory, unreadable or empty.
C17_GaugeCountsUsableReports ==
    (pc = "set_ready" \/ (pc = "sleep" /\ hist.last = "returned"))
        => /\ trivy_images_scanned = UsableReports(reports_dir)
           /\ (reports_dir.kind # "dir" \/ reports_dir.files = <<>>)
                 => trivy_images_scanned = 0

\* C17 witness: a cycle over two files, one of which did not parse, has
\* returned with the gauge at 1
C17_Witness ==
    /\ pc = "sleep" /\ hist.last = "returned"
    /\ reports_dir.kind = "dir" /\ Len(reports_dir.files) = 2
    /\ Undecodable \in Range(reports_dir.files)
    /\ trivy_images_scanned = 1

-----------------------------------------------------------------------------
(* More properties of the inventory-backed exporter (SpecInventory) *)

\* C15: every call of scan_image records one observation in the duration
\* histogram of its image, however the scan ended.
C15_OneObservationPerScan ==
    scan_log.outcome # "none" => scan_log.observations = 1

\* C19: after a cycle whose inventory query failed, no subject was
\* scanned, the cycle has returned without an exception, and the
\* vulnerability family is empty.
C19_InventoryFailureZeroCounts ==
    (CycleDone /\ ~cluster.ok)
        => /\ ipc = "sleep"
           /\ cycle_log.scanned = {}
           /\ vulnerability_gauge = {}

-----------------------------------------------------------------------------
(* Properties of the dashboard exporter (SpecDashboard) *)

\* C20: after a cycle that found the report directory absent or without a
\* report file, update_metrics has returned, the images-scanned gauge is 0
\* and the count family is empty.
C20_DashboardEmptySnapshot ==
    (dash_pc = "sleep" /\ dash_hist.runs > 0
     /\ (dash_reports_dir.kind = "missing"
         \/ (dash_reports_dir.kind = "dir" /\ dash_reports_dir.files = <<>>)))
        => /\ dash_hist.last = "returned"
           /\ dash_images_scanned = 0
           /\ dash_image_vulnerabilities = EmptyMap

-----------------------------------------------------------------------------
(* The error gauge over the cycles (SpecInventory) *)

\* C21: at any moment the error gauge has an entry for exactly the
\* subjects scan_image was ever called for, and a subject's entry is 1 if
\* and only if its latest scan_image call ended in a non-zero exit, a
\* timeout or an exception, and 0 if and only if that call returned scan
\* data; so a later successful scan resets a 1 to 0.
C21_ErrorGaugeIsLatestScan ==
    /\ DOMAIN scan_errors = DOMAIN latest_scan
    /\ \A s \in DOMAIN latest_scan :
          /\ scan_errors[s] = 1 <=> latest_scan[s].failed
          /\ scan_errors[s] = 0 <=> latest_scan[s].returned
          /\ scan_errors[s] \in {0, 1}

\* C21 witness: in the second cycle a scan returned data for a subject
\* whose error gauge was 1, and the gauge is 0 now, while another subject
\* keeps the 1 of its own latest scan
C21_Witness ==
    /\ cycleNo = 2
    /\ scan_log.outcome = "ok" /\ scan_log.returned
    /\ scan_log.reset
    /\ scan_errors[<<scan_log.image, scan_log.namespace>>] = 0
    /\ \E s \in DOMAIN scan_errors :
          /\ s # <<scan_log.image, scan_log.namespace>>
          /\ scan_errors[s] = 1
          /\ latest_scan[s].failed /\ ~latest_scan[s].returned

-----------------------------------------------------------------------------
(* The last-scan-timestamp family of the file-backed exporter (Spec) *)

\* what report file doc gives the timestamp family: the image and the epoch
\* of its CreatedAt when the file parses and fromisoformat accepts the
\* date, nothing otherwise
StampOf(doc) ==
    IF /\ TryRaises(doc) = "none"
       /\ doc.CreatedAt \notin {Missing, ""}
       /\ IsoEpoch(ReplacedZ[doc.CreatedAt]) >= 0
    THEN {<<Get(doc.ArtifactName, "unknown"), IsoEpoch(ReplacedZ[doc.CreatedAt])>>}
    ELSE {}

\* C22: no step of the file-backed exporter removes an entry of the
\* last-scan-timestamp family, and an image's entry is created or changed
\* only by the step of update_metrics that processes a usable report of
\* that image whose CreatedAt parses, which sets it to that date; so a
\* cycle without such a report (the report absent, not parsing, without a
\* CreatedAt or with one that does not parse, the directory missing or
\* empty) leaves the entry as it was.
C22_TimestampFrame ==
    [][/\ DOMAIN trivy_last_scan_timestamp \subseteq DOMAIN trivy_last_scan_timestamp'
       /\ \A image \in DOMAIN trivy_last_scan_timestamp' :
             (\/ image \notin DOMAIN trivy_last_scan_timestamp
              \/ trivy_last_scan_timestamp'[image] # trivy_last_scan_timestamp[image])
             => /\ pc = "loop" /\ idx <= Len(report_files)
                /\ StampOf(report_files[idx])
                       = {<<image, trivy_last_scan_timestamp'[image]>>}
      ]_vars

\* C22 witness: a cycle over a directory whose only report is one of
\* app:1.0 without a CreatedAt has returned, and app:1.0 still has the
\* timestamp an earlier cycle took from the report of January, next to the
\* entry of web:3 whose report is gone
C22_Witness ==
    /\ pc = "sleep" /\ hist.last = "returned"
    /\ reports_dir = [kind |-> "dir", files |-> <<DocNoDate>>]
    /\ DOMAIN trivy_last_scan_timestamp = {"app:1.0", "web:3"}
    /\ StampOf(DocApp) = {<<"app:1.0", trivy_last_scan_timestamp["app:1.0"]>>}

====
